---- MODULE Spec2Model ----
(***************************************************************************)
(* chemprop/train/evaluate.py: the masked multi-task metric evaluator.     *)
(*                                                                         *)
(* One behaviour is one call by a client of the module: either of          *)
(* evaluate_predictions (which runs _evaluate_predictions once by task and,*)
(* when metric_by_row is set, once more by row) or of select_valid_values  *)
(* on its own.  The metric functions, get_metric_func, the logger and      *)
(* print are collaborators outside the file: the model records every use   *)
(* of them (resolved, calls, logged, printed) and treats a metric's value  *)
(* as an uninterpreted term of its arguments.                              *)
(*                                                                         *)
(* Python indices are kept 0-based in the loop variable i; sequences are   *)
(* 1-based, so element i of a Python list is s[i + 1].  An IndexError that *)
(* escapes is the state pc = "raised", error = "IndexError".               *)
(***************************************************************************)
EXTENDS Integers, Sequences, FiniteSets, TLC

VARIABLES
    preds,          \* argument preds: a list of lists
    targets,        \* argument targets: a list of lists, None for absent
    num_tasks,      \* argument num_tasks
    dataset_type,   \* argument dataset_type
    metric_by_row,  \* argument metric_by_row of the client's call
    logger,         \* TRUE iff a logger was supplied (logger is not None)
    pc,             \* position of the call
    by_row,         \* metric_by_row of the running _evaluate_predictions
    valid_preds,    \* select_valid_values' first result
    valid_targets,  \* select_valid_values' second result
    i,              \* loop variable of _evaluate_predictions (0-based)
    results,        \* results of the running _evaluate_predictions
    outer,          \* results of evaluate_predictions (the task-axis pass)
    returned,       \* the mapping evaluate_predictions returned
    resolved,       \* metric names handed to get_metric_func, in order
    calls,          \* invocations of metric functions, in order
    logged,         \* messages handed to logger.info, in order
    printed,        \* messages handed to print, in order
    error           \* the exception that escaped, "none" if none

vars == <<preds, targets, num_tasks, dataset_type, metric_by_row, logger, pc,
          by_row, valid_preds, valid_targets, i, results, outer, returned,
          resolved, calls, logged, printed, error>>

inputs == <<preds, targets, num_tasks, dataset_type, metric_by_row, logger>>

-----------------------------------------------------------------------------
(* Bounds and input domains *)

\* The largest number of cells (items times width) of an input grid.
MaxCells == 4

\* Python's None, the absent target (grids hold numbers otherwise).
None == -1

\* The metric names of the call (argument metrics).
metrics == <<"auc", "accuracy">>

DatasetTypes == {"regression", "classification", "multiclass"}

\* Predictions: numbers, of which the code tells 0, 1 and anything else
\* apart (classification only); per-class score lists for multiclass.
PredValues(dt) ==
    IF dt = "classification" THEN {0, 1, 2}
    ELSE IF dt = "multiclass" THEN {<<2>>, <<2, 2>>}
    ELSE {0, 2}

\* Targets: None, or a class label, or (regression) a number.
TargetValues(dt) ==
    IF dt = "classification" THEN {None, 0, 1}
    ELSE IF dt = "multiclass" THEN {None, 0}
    ELSE {None, 1}

\* The grids of n items, each of width w, over the values V.
Grid(n, w, V) == [1..n -> [1..w -> V]]

\* The (items, width) pairs of the grids within the bound.
Shapes == {s \in (0..MaxCells) \X (1..MaxCells) : s[1] * s[2] <= MaxCells}

-----------------------------------------------------------------------------
(* Values of the result mapping *)

\* float('nan')
NaN == [kind |-> "nan"]

\* metric_func(valid_targets[i], valid_preds[i]) or, for multiclass,
\* metric_func(valid_targets[i], valid_preds[i], labels=...): the value is
\* whatever the collaborator computes from exactly these arguments.
MetricValue(metric, vt, vp, labels) ==
    [kind |-> "metric", metric |-> metric, targets |-> vt, preds |-> vp,
     labels |-> labels]

IsNaN(v) == v.kind = "nan"

\* np.nanmean(values): the mean of the entries that are not NaN, NaN when
\* there is none.
nanmean(values) ==
    LET kept == SelectSeq(values, LAMBDA v : ~IsNaN(v))
    IN  IF kept = <<>> THEN NaN ELSE [kind |-> "mean", of |-> kept]

\* f'{metric}{"-by-row" if metric_by_row else ""}'
MetricKey(metric, byrow) == IF byrow THEN metric \o "-by-row" ELSE metric

Range(s) == {s[k] : k \in 1..Len(s)}

\* A dict with no key.
EmptyDict == [k \in {} |-> <<>>]

\* results[key].append(v) on a defaultdict(list).
DictAppend(d, key, v) ==
    IF key \in DOMAIN d
    THEN [d EXCEPT ![key] = Append(@, v)]
    ELSE (key :> <<v>>) @@ d

\* results[metric].append(v) for every key of metric_to_func, in order.
RECURSIVE AppendAll(_, _, _)
AppendAll(d, keys, vals) ==
    IF keys = <<>> THEN d
    ELSE AppendAll(DictAppend(d, Head(keys), Head(vals)), Tail(keys), Tail(vals))

-----------------------------------------------------------------------------
(* select_valid_values *)

\* The loops of select_valid_values from cell (task ti, item tj) on, both
\* 0-based: task outer, item inner.  acc holds valid_preds and valid_targets
\* so far; raised is set when an index is out of range.
RECURSIVE SelectLoop(_, _, _, _, _, _, _)
SelectLoop(p, t, nt, byrow, ti, tj, acc) ==
    IF ti >= nt THEN acc
    ELSE IF tj >= Len(p) THEN SelectLoop(p, t, nt, byrow, ti + 1, 0, acc)
    ELSE IF tj >= Len(t) \/ ti >= Len(t[tj + 1])
         THEN [acc EXCEPT !.raised = TRUE]            \* targets[j][i]
    ELSE IF t[tj + 1][ti + 1] = None
         THEN SelectLoop(p, t, nt, byrow, ti, tj + 1, acc)
    ELSE IF ti >= Len(p[tj + 1])
         THEN [acc EXCEPT !.raised = TRUE]            \* preds[j][i]
    ELSE LET index == IF byrow THEN tj ELSE ti
         IN  SelectLoop(p, t, nt, byrow, ti, tj + 1,
                 [acc EXCEPT
                    !.valid_preds[index + 1] = Append(@, p[tj + 1][ti + 1]),
                    !.valid_targets[index + 1] = Append(@, t[tj + 1][ti + 1])])

\* The mutation of select_valid_values that inserts at the front of a group
\* instead of appending.
select_valid_values_prepend(p, t, nt, byrow) ==
    LET num_values == IF byrow THEN Len(p) ELSE nt
        r == SelectLoop(p, t, nt, byrow, 0, 0,
                 [valid_preds |-> [k \in 1..num_values |-> <<>>],
                  valid_targets |-> [k \in 1..num_values |-> <<>>],
                  raised |-> FALSE])
        Rev(s) == [k \in 1..Len(s) |-> s[Len(s) + 1 - k]]
    IN  [r EXCEPT !.valid_preds = [k \in 1..num_values |-> Rev(r.valid_preds[k])],
                  !.valid_targets = [k \in 1..num_values |-> Rev(r.valid_targets[k])]]

select_valid_values(p, t, nt, byrow) ==
    LET num_values == IF byrow THEN Len(p) ELSE nt
    IN  SelectLoop(p, t, nt, byrow, 0, 0,
            [valid_preds |-> [k \in 1..num_values |-> <<>>],
             valid_targets |-> [k \in 1..num_values |-> <<>>],
             raised |-> FALSE])

-----------------------------------------------------------------------------
(* _evaluate_predictions *)

\* The mutation of EmptyResult that leaves out "* num_tasks".
EmptyResultOneNaN(ms, nt) ==
    [m \in Range(ms) |-> <<NaN>>]

\* {metric: [float('nan')] * num_tasks for metric in metrics}
EmptyResult(ms, nt) ==
    [m \in Range(ms) |-> [k \in 1..nt |-> NaN]]

\* The keys of metric_to_func, in the order of metrics.
MetricKeys(ms, byrow) == [k \in 1..Len(ms) |-> MetricKey(ms[k], byrow)]

\* all(x == c for x in s)
AllEqual(s, c) == \A k \in 1..Len(s) : s[k] = c

\* all(... == 0 ...) or all(... == 1 ...)
AllZerosOrAllOnes(s) == AllEqual(s, 0) \/ AllEqual(s, 1)

TargetsWarning == "Warning: Found a task with targets all 0s or all 1s"
PredsWarning == "Warning: Found a task with predictions all 0s or all 1s"

\* The warnings of one classification group, in the order the code emits
\* them; none when metric_by_row.
GroupWarnings(vt, vp, byrow) ==
    IF byrow THEN <<>>
    ELSE (IF AllZerosOrAllOnes(vt) THEN <<TargetsWarning>> ELSE <<>>)
         \o (IF AllZerosOrAllOnes(vp) THEN <<PredsWarning>> ELSE <<>>)

\* list(range(len(valid_preds[i][0])))
Labels(vp) == [k \in 1..Len(vp[1]) |-> k - 1]

\* The invocations of the metric functions on one group, in order.
GroupCalls(ms, dt, byrow, g, vt, vp) ==
    [k \in 1..Len(ms) |->
        [metric |-> ms[k], by_row |-> byrow, group |-> g,
         targets |-> vt, preds |-> vp,
         labels |-> IF dt = "multiclass" THEN Labels(vp) ELSE <<>>]]

\* The value each invocation returns.
CallValue(c) == MetricValue(c.metric, c.targets, c.preds, c.labels)

-----------------------------------------------------------------------------
(* The state machine *)

Init ==
    /\ dataset_type \in DatasetTypes
    /\ \E sp \in Shapes, st \in Shapes :
          \* classification and multiclass grids are drawn well-shaped;
          \* regression grids are also drawn ill-shaped: the target grid
          \* with another item count or another width than the prediction
          \* grid, num_tasks up to one off the prediction grid's width
          /\ IF dataset_type = "regression"
             THEN /\ st[1] = sp[1] \/ st[2] = sp[2]
                  /\ num_tasks \in (sp[2] - 1)..(sp[2] + 1)
                  /\ num_tasks >= 1
             ELSE /\ st = sp
                  /\ num_tasks = sp[2]
          /\ preds \in Grid(sp[1], sp[2], PredValues(dataset_type))
          /\ targets \in Grid(st[1], st[2], TargetValues(dataset_type))
    /\ metric_by_row \in BOOLEAN
    /\ logger \in BOOLEAN
    /\ pc = "start"
    /\ by_row = FALSE
    /\ valid_preds = <<>>
    /\ valid_targets = <<>>
    /\ i = 0
    /\ results = EmptyDict
    /\ outer = EmptyDict
    /\ returned = EmptyDict
    /\ resolved = <<>>
    /\ calls = <<>>
    /\ logged = <<>>
    /\ printed = <<>>
    /\ error = "none"

\* A client calls select_valid_values directly.
CallSelect ==
    /\ pc = "start"
    /\ LET r == select_valid_values(preds, targets, num_tasks, metric_by_row)
       IN  IF r.raised
           THEN /\ pc' = "raised"
                /\ error' = "IndexError"
                /\ UNCHANGED <<valid_preds, valid_targets>>
           ELSE /\ pc' = "selected"
                /\ valid_preds' = r.valid_preds
                /\ valid_targets' = r.valid_targets
                /\ UNCHANGED error
    /\ by_row' = metric_by_row
    /\ UNCHANGED <<inputs, i, results, outer, returned, resolved, calls,
                   logged, printed>>

\* A client calls evaluate_predictions, which calls _evaluate_predictions
\* with metric_by_row=False.
CallEvaluate ==
    /\ pc = "start"
    /\ pc' = "entry"
    /\ by_row' = FALSE
    /\ UNCHANGED <<inputs, valid_preds, valid_targets, i, results, outer,
                   returned, resolved, calls, logged, printed, error>>

\* _evaluate_predictions on no items: the early return.
ReturnEmpty ==
    /\ pc = "entry"
    /\ Len(preds) = 0
    /\ results' = EmptyResult(metrics, num_tasks)
    /\ pc' = "return"
    /\ UNCHANGED <<inputs, by_row, valid_preds, valid_targets, i, outer,
                   returned, resolved, calls, logged, printed, error>>

\* _evaluate_predictions up to its loop: the metric functions are resolved,
\* the valid values selected.
Prepare ==
    /\ pc = "entry"
    /\ Len(preds) # 0
    /\ resolved' = resolved \o metrics
    /\ LET r == select_valid_values(preds, targets, num_tasks, by_row)
       IN  IF r.raised
           THEN /\ pc' = "raised"
                /\ error' = "IndexError"
                /\ UNCHANGED <<valid_preds, valid_targets, i, results>>
           ELSE /\ pc' = "loop"
                /\ valid_preds' = r.valid_preds
                /\ valid_targets' = r.valid_targets
                /\ i' = 0
                /\ results' = EmptyDict
                /\ UNCHANGED error
    /\ UNCHANGED <<inputs, by_row, outer, returned, calls, logged, printed>>

\* The loop reads valid_targets[i] with i beyond the groups.
LoopIndexError ==
    /\ pc = "loop"
    /\ i < Len(preds)
    /\ i >= Len(valid_targets)
    /\ pc' = "raised"
    /\ error' = "IndexError"
    /\ UNCHANGED <<inputs, by_row, valid_preds, valid_targets, i, results,
                   outer, returned, resolved, calls, logged, printed>>

\* A classification group whose targets or predictions are all 0 or all 1.
LoopDegenerate ==
    /\ pc = "loop"
    /\ i < Len(preds)
    /\ i < Len(valid_targets)
    /\ dataset_type = "classification"
    /\ LET vt == valid_targets[i + 1]
           vp == valid_preds[i + 1]
           w  == GroupWarnings(vt, vp, by_row)
       IN  /\ AllZerosOrAllOnes(vt) \/ AllZerosOrAllOnes(vp)
           /\ IF logger
              THEN logged' = logged \o w /\ UNCHANGED printed
              ELSE printed' = printed \o w /\ UNCHANGED logged
    /\ results' = AppendAll(results, MetricKeys(metrics, by_row),
                            [k \in 1..Len(metrics) |-> NaN])
    /\ i' = i + 1
    /\ UNCHANGED <<inputs, pc, by_row, valid_preds, valid_targets, outer,
                   returned, resolved, calls, error>>

\* The group is not degenerate (or the data is not classification).
NotDegenerate ==
    /\ i < Len(preds)
    /\ i < Len(valid_targets)
    /\ dataset_type = "classification" =>
          /\ ~AllZerosOrAllOnes(valid_targets[i + 1])
          /\ ~AllZerosOrAllOnes(valid_preds[i + 1])

\* A group with no valid target is skipped.
LoopSkipEmpty ==
    /\ pc = "loop"
    /\ NotDegenerate
    /\ Len(valid_targets[i + 1]) = 0
    /\ i' = i + 1
    /\ UNCHANGED <<inputs, pc, by_row, valid_preds, valid_targets, results,
                   outer, returned, resolved, calls, logged, printed, error>>

\* Every metric function is invoked on the group.
LoopInvoke ==
    /\ pc = "loop"
    /\ NotDegenerate
    /\ Len(valid_targets[i + 1]) # 0
    /\ LET cs == GroupCalls(metrics, dataset_type, by_row, i,
                            valid_targets[i + 1], valid_preds[i + 1])
       IN  /\ calls' = calls \o cs
           /\ results' = AppendAll(results, MetricKeys(metrics, by_row),
                                   [k \in 1..Len(cs) |-> CallValue(cs[k])])
    /\ i' = i + 1
    /\ UNCHANGED <<inputs, pc, by_row, valid_preds, valid_targets, outer,
                   returned, resolved, logged, printed, error>>

\* After the loop: by row, every list of values becomes its nanmean.
Reduce ==
    /\ pc = "loop"
    /\ i >= Len(preds)
    /\ results' = IF by_row
                  THEN [k \in DOMAIN results |-> <<nanmean(results[k])>>]
                  ELSE results
    /\ pc' = "return"
    /\ UNCHANGED <<inputs, by_row, valid_preds, valid_targets, i, outer,
                   returned, resolved, calls, logged, printed, error>>

\* evaluate_predictions takes the task-axis results and, when metric_by_row,
\* calls _evaluate_predictions again with metric_by_row=True.
ReturnTaskPass ==
    /\ pc = "return"
    /\ ~by_row
    /\ outer' = results
    /\ IF metric_by_row
       THEN /\ pc' = "entry"
            /\ by_row' = TRUE
            /\ UNCHANGED returned
       ELSE /\ pc' = "done"
            /\ returned' = results
            /\ UNCHANGED by_row
    /\ UNCHANGED <<inputs, valid_preds, valid_targets, i, results, resolved,
                   calls, logged, printed, error>>

\* results.update(<the by-row results>); return results
ReturnRowPass ==
    /\ pc = "return"
    /\ by_row
    /\ returned' = results @@ outer
    /\ pc' = "done"
    /\ UNCHANGED <<inputs, by_row, valid_preds, valid_targets, i, results,
                   outer, resolved, calls, logged, printed, error>>

Next ==
    \/ CallSelect
    \/ CallEvaluate
    \/ ReturnEmpty
    \/ Prepare
    \/ LoopIndexError
    \/ LoopDegenerate
    \/ LoopSkipEmpty
    \/ LoopInvoke
    \/ Reduce
    \/ ReturnTaskPass
    \/ ReturnRowPass

Spec == Init /\ [][Next]_vars

-----------------------------------------------------------------------------
(* What the grids hold, read off the inputs cell by cell *)

\* Both grids have the same item count and every item has width num_tasks.
WellShaped ==
    /\ Len(preds) = Len(targets)
    /\ \A j \in 1..Len(preds) :
          Len(preds[j]) = num_tasks /\ Len(targets[j]) = num_tasks

\* The k-th smallest member of a set of numbers.
Nth(S, k) == CHOOSE x \in S : Cardinality({y \in S : y <= x}) = k

\* The items with a present target at task t, the tasks with a present
\* target at item j (1-based, well-shaped grids).
PresentItems(t) == {j \in 1..Len(targets) : targets[j][t] # None}
PresentTasks(j) == {t \in 1..num_tasks : targets[j][t] # None}

\* The present targets of task t in item order, and the predictions beside
\* them; the same for item j in task order.
ColTargets(t) ==
    [k \in 1..Cardinality(PresentItems(t)) |-> targets[Nth(PresentItems(t), k)][t]]
ColPreds(t) ==
    [k \in 1..Cardinality(PresentItems(t)) |-> preds[Nth(PresentItems(t), k)][t]]
RowTargets(j) ==
    [k \in 1..Cardinality(PresentTasks(j)) |-> targets[j][Nth(PresentTasks(j), k)]]
RowPreds(j) ==
    [k \in 1..Cardinality(PresentTasks(j)) |-> preds[j][Nth(PresentTasks(j), k)]]

\* The group g (1-based) of either axis.
GroupTargets(byrow, g) == IF byrow THEN RowTargets(g) ELSE ColTargets(g)
GroupPreds(byrow, g) == IF byrow THEN RowPreds(g) ELSE ColPreds(g)
NumGroups(byrow) == IF byrow THEN Len(preds) ELSE num_tasks

\* A group is degenerate: classification data whose valid targets, or whose
\* valid predictions, are all 0 or all 1.
Degenerate(byrow, g) ==
    /\ dataset_type = "classification"
    /\ \/ AllZerosOrAllOnes(GroupTargets(byrow, g))
       \/ AllZerosOrAllOnes(GroupPreds(byrow, g))

\* The tasks with at least one present target, and the place of such a
\* task among them.
LabelledTasks == {t \in 1..num_tasks : PresentItems(t) # {}}
LabelledRank(t) == Cardinality({u \in LabelledTasks : u <= t})

\* The task-axis and row-axis sequences of a metric in the returned mapping
\* (empty when the key is missing).
TaskSeq(m) == IF m \in DOMAIN returned THEN returned[m] ELSE <<>>

\* What a metric is to yield for group g: NaN when degenerate, else the
\* metric function's value on the group's valid targets and predictions.
ExpectedValue(m, byrow, g) ==
    IF Degenerate(byrow, g) THEN NaN
    ELSE MetricValue(m, GroupTargets(byrow, g), GroupPreds(byrow, g),
                     IF dataset_type = "multiclass"
                     THEN Labels(GroupPreds(byrow, g)) ELSE <<>>)

\* The invocations of metric m on group g (0-based) of an axis.
CallsFor(m, byrow, g) ==
    {k \in 1..Len(calls) :
        calls[k].metric = m /\ calls[k].by_row = byrow /\ calls[k].group = g}

\* Every warning emitted, whichever sink took it.
Emitted == IF logger THEN logged ELSE printed

\* The warnings of tasks t..num_tasks, in task order.
RECURSIVE WarningsFrom(_)
WarningsFrom(t) ==
    IF t > num_tasks THEN <<>>
    ELSE GroupWarnings(ColTargets(t), ColPreds(t), FALSE) \o WarningsFrom(t + 1)

Completed == pc = "done" /\ WellShaped /\ Len(preds) > 0

-----------------------------------------------------------------------------
(* The claims *)

\* C1: task-axis mode, on a non-empty well-shaped grid: each requested
\* metric's result sequence is no longer than num_tasks and has exactly one
\* entry per task with at least one present target, in task order; a task
\* whose targets are all absent contributes no entry.
C1_OneEntryPerLabelledTask ==
    Completed =>
        \A m \in Range(metrics) :
            /\ Len(TaskSeq(m)) <= num_tasks
            /\ Len(TaskSeq(m)) = Cardinality(LabelledTasks)
            /\ \A k \in 1..Len(TaskSeq(m)) :
                  TaskSeq(m)[k] = ExpectedValue(m, FALSE, Nth(LabelledTasks, k))

\* C2: for all inputs, the keys of the returned mapping are exactly the
\* requested metric names, plus each name suffixed "-by-row" if and only if
\* metric_by_row was requested.
C2_KeysAreTheRequestedMetrics ==
    pc = "done" =>
        DOMAIN returned =
            Range(metrics) \cup
            (IF metric_by_row
             THEN {MetricKey(m, TRUE) : m \in Range(metrics)} ELSE {})

\* C3: select_valid_values partitions the present-target cells of a
\* well-shaped grid: there is one group per task (by task) or per item (by
\* row); a group holds exactly the cells of its task or item whose target is
\* not None, as aligned (prediction, target) pairs, in grid order along the
\* other axis; no None target is in any group.
C3_SelectIsAPartition ==
    (pc \in {"selected", "loop"} /\ WellShaped) =>
        /\ Len(valid_preds) = NumGroups(by_row)
        /\ Len(valid_targets) = NumGroups(by_row)
        /\ \A g \in 1..NumGroups(by_row) :
              /\ valid_targets[g] = GroupTargets(by_row, g)
              /\ valid_preds[g] = GroupPreds(by_row, g)
              /\ \A k \in 1..Len(valid_targets[g]) : valid_targets[g][k] # None

\* C3's case: select_valid_values has run by row on two items or more, with
\* an absent target and a group of two pairs.
C3_Witness ==
    /\ pc = "selected"
    /\ WellShaped
    /\ by_row
    /\ Len(preds) >= 2
    /\ \E j \in 1..Len(targets) : \E t \in 1..num_tasks : targets[j][t] = None
    /\ \E g \in 1..Len(valid_targets) : Len(valid_targets[g]) >= 2

\* C4: classification: for every task whose valid targets are all 0 or all
\* 1, every requested metric's task-axis result for that task is NaN and no
\* metric function is invoked for the task, whatever the task's index and
\* the number of items.
C4_SingleClassTargetsGiveNaN ==
    (Completed /\ dataset_type = "classification") =>
        \A t \in LabelledTasks :
            AllZerosOrAllOnes(ColTargets(t)) =>
                \A m \in Range(metrics) :
                    /\ Len(TaskSeq(m)) >= LabelledRank(t)
                    /\ TaskSeq(m)[LabelledRank(t)] = NaN
                    /\ CallsFor(m, FALSE, t - 1) = {}

\* C5: whenever metric_by_row is requested, the empty grid included, each
\* row-axis key maps to a sequence of exactly one value, and that value is
\* NaN when every item is degenerate or empty.
C5_RowAxisHoldsOneValue ==
    (pc = "done" /\ WellShaped /\ metric_by_row) =>
        \A m \in Range(metrics) :
            /\ MetricKey(m, TRUE) \in DOMAIN returned
            /\ Len(returned[MetricKey(m, TRUE)]) = 1
            /\ (\A j \in 1..Len(preds) :
                    RowTargets(j) = <<>> \/ Degenerate(TRUE, j))
                  => returned[MetricKey(m, TRUE)][1] = NaN

\* C6: when preds has no item, evaluate_predictions returns, for every
\* requested metric, a sequence of exactly num_tasks NaN values; it raises
\* nothing, resolves and invokes no metric function and emits no warning.
C6_EmptyGridGivesNaNPerTask ==
    (Len(preds) = 0 /\ pc # "selected") =>
        /\ pc # "raised"
        /\ resolved = <<>>
        /\ calls = <<>>
        /\ logged = <<>>
        /\ printed = <<>>
        /\ pc = "done" =>
              \A m \in Range(metrics) :
                  /\ m \in DOMAIN returned
                  /\ Len(returned[m]) = num_tasks
                  /\ \A k \in 1..num_tasks : returned[m][k] = NaN

\* C6's case: evaluate_predictions has returned from an empty grid, with
\* several tasks and the row axis requested.
C6_Witness ==
    /\ pc = "done"
    /\ Len(preds) = 0
    /\ num_tasks >= 2
    /\ metric_by_row

\* C7: on a well-shaped input, whatever the item count relative to
\* num_tasks and whatever targets are absent, no exception escapes.
C7_WellShapedNeverRaises ==
    WellShaped => pc # "raised"

\* C8: an input whose num_tasks differs from the grids' width, or whose
\* grids differ in item count, is rejected: neither select_valid_values nor
\* evaluate_predictions returns a result for it.
C8_MismatchIsRejected ==
    ~WellShaped => pc \notin {"selected", "done"}

\* C9: for every group that is non-empty and not degenerate, each requested
\* metric function is invoked exactly once, with exactly the group's valid
\* targets and predictions (and, multiclass, the labels of the first
\* prediction's width); no None is passed to a metric function; no metric
\* function is invoked for an empty or degenerate group.
C9_InvokedOncePerProperGroup ==
    /\ \A k \in 1..Len(calls) : None \notin Range(calls[k].targets)
    /\ Completed =>
          \A byrow \in {FALSE} \cup (IF metric_by_row THEN {TRUE} ELSE {}) :
              \A g \in 1..NumGroups(byrow) : \A m \in Range(metrics) :
                  IF GroupTargets(byrow, g) # <<>> /\ ~Degenerate(byrow, g)
                  THEN /\ Cardinality(CallsFor(m, byrow, g - 1)) = 1
                       /\ \A k \in CallsFor(m, byrow, g - 1) :
                             CallValue(calls[k]) = ExpectedValue(m, byrow, g)
                  ELSE CallsFor(m, byrow, g - 1) = {}

\* C10: classification: the task-axis pass emits exactly one warning per
\* task and condition that holds (targets all one class, predictions all one
\* class), in task order, and the row-axis pass emits none, so the warnings
\* are the same with and without metric_by_row; they go to the logger when
\* one is supplied and nowhere else.
C10_OneWarningPerTaskAndCondition ==
    (Completed /\ dataset_type = "classification") =>
        /\ Emitted = WarningsFrom(1)
        /\ logger => printed = <<>>
        /\ ~logger => logged = <<>>

====
